---- MODULE Spec2Model ----
(***************************************************************************)
(* Loan eligibility webhook (src/main.py).                                 *)
(*                                                                         *)
(* One POST /webhook request is one run of loan_eligibility_webhook: merge *)
(* the parameters of the matching contexts and of the current turn, derive *)
(* the loan type, extract age / income / qualification, branch on the      *)
(* product and return one text (or leave through an exception of int()).   *)
(*                                                                         *)
(* JSON values are records of one shape, so that any two can be compared:  *)
(*   t     "none" | "bool" | "int" | "float" | "str" | "list" | "dict"     *)
(*   n     int: the number; bool: 0/1; float: the number in tenths;        *)
(*         dict: how many keys other than `amount` it holds                *)
(*   s     str: the text, a sequence of one-character strings              *)
(*   amt   dict: whether it holds the key `amount`                         *)
(*   items list: its elements; dict with `amount`: <<the amount>>          *)
(* Elements and amounts are records [t, n, s]; a container met there is    *)
(* the empty list, or a dict of n keys none of which is `amount`.          *)
(***************************************************************************)
EXTENDS Integers, Sequences, FiniteSets, TLC

VARIABLES
    request,        \* the QueryResult: parameters, output_contexts
    pc,             \* "received" | "responded"
    params,         \* merged parameters (main.py:108)
    loan_type,      \* main.py:111
    age,            \* main.py:117
    income,         \* main.py:118
    qualification,  \* main.py:119
    raised,         \* "none" | "ValueError" | "TypeError": how the handler ended
    fulfillmentText \* the text returned at main.py:177

vars == <<request, pc, params, loan_type, age, income, qualification, raised, fulfillmentText>>

\* ------------------------------------------------------------------ bounds
\* Longest output_contexts list of a request.
MaxContexts == 2

\* ------------------------------------------------------------------ values
El(t, n, s) == [t |-> t, n |-> n, s |-> s]
Val(t, n, s, amt, items) == [t |-> t, n |-> n, s |-> s, amt |-> amt, items |-> items]

None == Val("none", 0, <<>>, FALSE, <<>>)
IntV(n) == Val("int", n, <<>>, FALSE, <<>>)
FloatV(tenths) == Val("float", tenths, <<>>, FALSE, <<>>)
BoolV(b) == Val("bool", IF b THEN 1 ELSE 0, <<>>, FALSE, <<>>)
StrV(s) == Val("str", 0, s, FALSE, <<>>)
ListV(items) == Val("list", 0, <<>>, FALSE, items)
\* {"amount": a, ...} with `others` further keys (currency, unit, ...)
AmountV(a, others) == Val("dict", others, <<>>, TRUE, <<a>>)
\* a dict of `others` keys, none of them `amount`
DictV(others) == Val("dict", others, <<>>, FALSE, <<>>)

NoneE == El("none", 0, <<>>)
IntE(n) == El("int", n, <<>>)
StrE(s) == El("str", 0, s)
EmptyListE == El("list", 0, <<>>)

\* An element or amount, taken out of its container, as a value of its own.
Lift(e) == Val(e.t, e.n, e.s, FALSE, <<>>)

\* ------------------------------------------------------------------ text
MARKER == <<"a", "w", "a", "i", "t", "i", "n", "g", "-", "l", "o", "a", "n", "-", "d", "e", "t", "a", "i", "l", "s">>
S_empty == <<>>
S_home == <<"h", "o", "m", "e">>
S_car == <<"c", "a", "r">>
S_personal == <<"p", "e", "r", "s", "o", "n", "a", "l">>
S_education == <<"e", "d", "u", "c", "a", "t", "i", "o", "n">>
S_business == <<"b", "u", "s", "i", "n", "e", "s", "s">>
S_gold == <<"g", "o", "l", "d">>
S_Home == <<"H", "o", "m", "e">>
S_yes == <<"y", "e", "s">>
S_graduate == <<"g", "r", "a", "d", "u", "a", "t", "e">>
S_UnderGraduate == <<"U", "n", "d", "e", "r", " ", "G", "r", "a", "d", "u", "a", "t", "e">>
S_POSTGRADUATE == <<"P", "O", "S", "T", " ", "G", "R", "A", "D", "U", "A", "T", "E">>
S_HighSchool == <<"H", "i", "g", "h", " ", "S", "c", "h", "o", "o", "l">>
S_abc == <<"a", "b", "c">>
S_25 == <<"2", "5">>
S_pad30 == <<" ", "3", "0", " ">>
S_1_000 == <<"1", "_", "0", "0", "0">>
S_minus5 == <<"-", "5">>
S_25dot0 == <<"2", "5", ".", "0">>
N_followup == <<"a", "w", "a", "i", "t", "i", "n", "g", "-", "l", "o", "a", "n", "-", "d", "e", "t", "a", "i", "l", "s", "-", "f", "o", "l", "l", "o", "w", "u", "p">>
N_path == <<"c", "t", "x", "/", "a", "w", "a", "i", "t", "i", "n", "g", "-", "l", "o", "a", "n", "-", "d", "e", "t", "a", "i", "l", "s">>
N_short == <<"a", "w", "a", "i", "t", "i", "n", "g", "-", "l", "o", "a", "n", "-", "d", "e", "t", "a", "i", "l">>
N_other == <<"l", "o", "a", "n", "-", "f", "o", "l", "l", "o", "w", "u", "p">>

\* Python's `sub in s` on str.
Contains(sub, s) ==
    \E i \in 0..(Len(s) - Len(sub)) : SubSeq(s, i + 1, i + Len(sub)) = sub

Upper == <<"A", "B", "C", "D", "E", "F", "G", "H", "I", "J", "K", "L", "M",
           "N", "O", "P", "Q", "R", "S", "T", "U", "V", "W", "X", "Y", "Z">>
LowerOf == <<"a", "b", "c", "d", "e", "f", "g", "h", "i", "j", "k", "l", "m",
             "n", "o", "p", "q", "r", "s", "t", "u", "v", "w", "x", "y", "z">>

LowerChar(c) ==
    IF \E i \in 1..Len(Upper) : Upper[i] = c
    THEN LowerOf[CHOOSE i \in 1..Len(Upper) : Upper[i] = c]
    ELSE c

\* str.lower()
Lower(s) == [i \in 1..Len(s) |-> LowerChar(s[i])]

Digits == <<"0", "1", "2", "3", "4", "5", "6", "7", "8", "9">>
IsDigit(c) == \E i \in 1..Len(Digits) : Digits[i] = c
DigitVal(c) == (CHOOSE i \in 1..Len(Digits) : Digits[i] = c) - 1

RECURSIVE NatToChars(_)
NatToChars(n) ==
    IF n < 10 THEN <<Digits[n + 1]>>
    ELSE NatToChars(n \div 10) \o <<Digits[(n % 10) + 1]>>

IntToChars(n) == IF n < 0 THEN <<"-">> \o NatToChars(-n) ELSE NatToChars(n)

\* str(value), for the values this model holds.
Str(v) ==
    CASE v.t = "none"  -> <<"N", "o", "n", "e">>
      [] v.t = "bool"  -> IF v.n = 1 THEN <<"T", "r", "u", "e">> ELSE <<"F", "a", "l", "s", "e">>
      [] v.t = "int"   -> IntToChars(v.n)
      [] v.t = "float" -> (IF v.n < 0 THEN <<"-">> ELSE <<>>)
                          \o NatToChars((IF v.n < 0 THEN -v.n ELSE v.n) \div 10)
                          \o <<".">>
                          \o NatToChars((IF v.n < 0 THEN -v.n ELSE v.n) % 10)
      [] v.t = "str"   -> v.s
      [] v.t = "list"  -> <<"[", "]">>
      [] v.t = "dict"  -> IF v.n = 0 THEN <<"{", "}">>
                          ELSE <<"{", "'", "c", "u", "r", "r", "e", "n", "c", "y", "'", ":", " ",
                                 "'", "I", "N", "R", "'", "}">>

\* ------------------------------------------------------------------ int()
RECURSIVE LStrip(_)
LStrip(s) == IF Len(s) > 0 /\ s[1] = " " THEN LStrip(Tail(s)) ELSE s

RECURSIVE RStrip(_)
RStrip(s) == IF Len(s) > 0 /\ s[Len(s)] = " " THEN RStrip(SubSeq(s, 1, Len(s) - 1)) ELSE s

Unsigned(s) == IF Len(s) > 0 /\ s[1] \in {"+", "-"} THEN Tail(s) ELSE s

\* Digits, with single underscores allowed between two digits.
IsDigitString(d) ==
    /\ Len(d) > 0
    /\ IsDigit(d[1]) /\ IsDigit(d[Len(d)])
    /\ \A i \in 1..Len(d) : IsDigit(d[i]) \/ d[i] = "_"
    /\ \A i \in 1..(Len(d) - 1) : ~(d[i] = "_" /\ d[i + 1] = "_")

RECURSIVE DigitsValue(_)
DigitsValue(d) ==
    IF Len(d) = 0 THEN 0
    ELSE IF d[Len(d)] = "_" THEN DigitsValue(SubSeq(d, 1, Len(d) - 1))
    ELSE 10 * DigitsValue(SubSeq(d, 1, Len(d) - 1)) + DigitVal(d[Len(d)])

\* int(s) for a str: [err, n]
ParseInt(s) ==
    LET body == RStrip(LStrip(s))
        d == Unsigned(body)
    IN  IF IsDigitString(d)
        THEN [err |-> "none",
              n |-> IF Len(body) > 0 /\ body[1] = "-" THEN -DigitsValue(d) ELSE DigitsValue(d)]
        ELSE [err |-> "ValueError", n |-> 0]

\* int(v): [err, n]; a float truncates towards zero.
int(v) ==
    CASE v.t \in {"int", "bool"} -> [err |-> "none", n |-> v.n]
      [] v.t = "float" -> [err |-> "none",
                           n |-> IF v.n < 0 THEN -((-v.n) \div 10) ELSE v.n \div 10]
      [] v.t = "str"   -> ParseInt(v.s)
      [] OTHER         -> [err |-> "TypeError", n |-> 0]

\* Python truthiness (bool(v)).
Truthy(v) ==
    CASE v.t = "none"  -> FALSE
      [] v.t \in {"bool", "int", "float"} -> v.n # 0
      [] v.t = "str"   -> Len(v.s) > 0
      [] v.t = "list"  -> Len(v.items) > 0
      [] v.t = "dict"  -> v.amt \/ v.n > 0

\* ------------------------------------------------------------------ mappings
\* dict.get(key)
Get(m, k) == IF k \in DOMAIN m THEN m[k] ELSE None

\* m.update(p)
Update(m, p) == [k \in (DOMAIN m) \cup (DOMAIN p) |-> IF k \in DOMAIN p THEN p[k] ELSE m[k]]

EmptyDict == [k \in {} |-> None]

\* A Context: its name, and its parameters (null: parameters is None).
Context(name, null, parameters) == [name |-> name, null |-> null, parameters |-> parameters]

\* Truthiness of context.parameters: a dict that is neither None nor empty.
ContextHasParameters(c) == ~c.null /\ DOMAIN c.parameters # {}

\* ------------------------------------------------------------------ program
\* Mutant of MergeContexts: a key already merged is kept, so the first
\* contributing context wins.
RECURSIVE MergeContexts_FirstWins(_, _, _)
MergeContexts_FirstWins(contexts, i, acc) ==
    IF i > Len(contexts) THEN acc
    ELSE MergeContexts_FirstWins(contexts, i + 1,
            IF Contains(MARKER, contexts[i].name) /\ ContextHasParameters(contexts[i])
            THEN Update(contexts[i].parameters, acc)
            ELSE acc)

\* The loop of main.py:40-43 over contexts[i..], from merged_params = acc.
RECURSIVE MergeContexts(_, _, _)
MergeContexts(contexts, i, acc) ==
    IF i > Len(contexts) THEN acc
    ELSE MergeContexts(contexts, i + 1,
            IF Contains(MARKER, contexts[i].name) /\ ContextHasParameters(contexts[i])
            THEN Update(acc, contexts[i].parameters)
            ELSE acc)

\* Mutant of get_merged_parameters: the contexts are laid over the current turn.
get_merged_parameters_ContextsLast(query_result) ==
    LET from_contexts ==
            IF ~query_result.contexts_null /\ Len(query_result.output_contexts) > 0
            THEN MergeContexts(query_result.output_contexts, 1, EmptyDict)
            ELSE EmptyDict
    IN  Update(query_result.parameters, from_contexts)

get_merged_parameters(query_result) ==
    LET merged_params ==
            IF ~query_result.contexts_null /\ Len(query_result.output_contexts) > 0
            THEN MergeContexts(query_result.output_contexts, 1, EmptyDict)
            ELSE EmptyDict
    IN  Update(merged_params, query_result.parameters)

\* Mutant of determine_loan_type: a flag returns its own value.
determine_loan_type_FlagValue(p) ==
    IF Truthy(Get(p, "loan-type")) THEN p["loan-type"]
    ELSE IF Truthy(Get(p, "Home_eligibility")) THEN p["Home_eligibility"]
    ELSE IF Truthy(Get(p, "Car_eligibility")) THEN p["Car_eligibility"]
    ELSE IF Truthy(Get(p, "education_eligibility")) THEN p["education_eligibility"]
    ELSE IF Truthy(Get(p, "edu_eligibility")) THEN p["edu_eligibility"]
    ELSE IF Truthy(Get(p, "personal_eligibility")) THEN p["personal_eligibility"]
    ELSE IF Truthy(Get(p, "Business_eligibility")) THEN p["Business_eligibility"]
    ELSE None

\* Mutant of determine_loan_type: personal is checked before education.
determine_loan_type_PersonalFirst(p) ==
    IF Truthy(Get(p, "loan-type")) THEN p["loan-type"]
    ELSE IF Truthy(Get(p, "Home_eligibility")) THEN StrV(S_home)
    ELSE IF Truthy(Get(p, "Car_eligibility")) THEN StrV(S_car)
    ELSE IF Truthy(Get(p, "personal_eligibility")) THEN StrV(S_personal)
    ELSE IF Truthy(Get(p, "education_eligibility")) \/ Truthy(Get(p, "edu_eligibility"))
         THEN StrV(S_education)
    ELSE IF Truthy(Get(p, "Business_eligibility")) THEN StrV(S_business)
    ELSE None

determine_loan_type(p) ==
    IF Truthy(Get(p, "loan-type")) THEN p["loan-type"]
    ELSE IF Truthy(Get(p, "Home_eligibility")) THEN StrV(S_home)
    ELSE IF Truthy(Get(p, "Car_eligibility")) THEN StrV(S_car)
    ELSE IF Truthy(Get(p, "education_eligibility")) \/ Truthy(Get(p, "edu_eligibility"))
         THEN StrV(S_education)
    ELSE IF Truthy(Get(p, "personal_eligibility")) THEN StrV(S_personal)
    ELSE IF Truthy(Get(p, "Business_eligibility")) THEN StrV(S_business)
    ELSE None

\* The key that stands for "no fallback" (fallback_name None).
NoFallback == ""

\* Mutant of Resolve: the fallback is consulted for any falsy value
\* (`if not value and fallback_name`).
Resolve_FalsyFallback(p, param_name, fallback_name) ==
    IF ~Truthy(Get(p, param_name)) /\ fallback_name # NoFallback
    THEN Get(p, fallback_name)
    ELSE Get(p, param_name)

\* main.py:73-75
Resolve(p, param_name, fallback_name) ==
    IF Get(p, param_name).t = "none" /\ fallback_name # NoFallback
    THEN Get(p, fallback_name)
    ELSE Get(p, param_name)

\* Mutant of Unwrap: the empty string is returned as it is.
Unwrap_KeepEmpty(value) ==
    IF value.t = "none" THEN None
    ELSE IF value.t = "dict" /\ value.amt THEN Lift(value.items[1])
    ELSE IF value.t = "list" /\ Len(value.items) > 0 THEN Lift(value.items[1])
    ELSE value

\* main.py:77-92
Unwrap(value) ==
    IF value.t = "none" THEN None
    ELSE IF value.t = "dict" /\ value.amt THEN Lift(value.items[1])
    ELSE IF value.t = "list" /\ Len(value.items) > 0 THEN Lift(value.items[1])
    ELSE IF value # StrV(S_empty) THEN value
    ELSE None

get_parameter(p, param_name, fallback_name) == Unwrap(Resolve(p, param_name, fallback_name))

\* ------------------------------------------------------------------ responses
Undetermined == "I'm sorry, I couldn't determine the loan type. Please specify if it's for a car, home, education, business, or personal use."
HomeSuccess == "Excellent! Based on your age and income, you are eligible for a home loan."
HomeIneligible == "Sorry, you do not meet the criteria for a home loan. You must be at least 21 years old and have a minimum monthly income of ₹30,000."
HomePrompt == "To check your home loan eligibility, I need a few more details. What is your age and your monthly income?(e.g., My age is ** and I make ****)"
CarSuccess == "Great news! You are eligible for a car loan."
CarIneligible == "Sorry, you do not meet the criteria for a car loan. You must be at least 18 years old and have a minimum monthly income of ₹20,000."
CarPrompt == "To check your eligibility for a car loan, I need to know your age and monthly income(e.g., My age is ** and I make ****)."
PersonalSuccess == "Great news! You are eligible for a personal loan."
PersonalIneligible == "Sorry, you do not meet the criteria for a personal loan. You must be at least 25 years old and have a minimum monthly income of ₹25,000."
PersonalPrompt == "To check your eligibility for a personal loan, I need to know your age and monthly income(e.g., My age is ** and I make ****)."
EducationSuccess == "Congratulations! You are eligible for an education loan."
EducationIneligible == "Sorry, you do not meet the criteria for an education loan. You must be a graduate and no older than 30."
EducationPrompt == "To check your eligibility for an education loan, I need your age and qualification (e.g.,My age is ** and 'under graduate'or 'post graduate')."
BusinessSuccess == "Fantastic! You are eligible for a business loan."
BusinessIneligible == "Sorry, to be eligible for a business loan, your minimum monthly income must be at least ₹40,000."
BusinessPrompt == "To check your eligibility for a business loan, I need to know your monthly income(e.g., My age is ** and I make ****)."
\* No body of the handler: the request left through an exception.
NoText == ""

Ok(text) == [raised |-> "none", text |-> text]
Raise(err) == [raised |-> err, text |-> NoText]

\* `int(a) >= minAge and int(i) >= minIncome`, left to right, the right operand
\* evaluated only when the left is true; an int() that fails ends the request.
AgeAndIncome(a, i, minAge, minIncome, success, ineligible) ==
    IF int(a).err # "none" THEN Raise(int(a).err)
    ELSE IF ~(int(a).n >= minAge) THEN Ok(ineligible)
    ELSE IF int(i).err # "none" THEN Raise(int(i).err)
    ELSE IF int(i).n >= minIncome THEN Ok(success)
    ELSE Ok(ineligible)

\* Mutant of HomeBranch: the age must exceed 21.
HomeBranch_StrictAge(a, i) ==
    IF a.t # "none" /\ i.t # "none"
    THEN AgeAndIncome(a, i, 22, 30000, HomeSuccess, HomeIneligible)
    ELSE Ok(HomePrompt)

\* main.py:126-133
HomeBranch(a, i) ==
    IF a.t # "none" /\ i.t # "none"
    THEN AgeAndIncome(a, i, 21, 30000, HomeSuccess, HomeIneligible)
    ELSE Ok(HomePrompt)

\* main.py:135-142
CarBranch(a, i) ==
    IF a.t # "none" /\ i.t # "none"
    THEN AgeAndIncome(a, i, 18, 20000, CarSuccess, CarIneligible)
    ELSE Ok(CarPrompt)

\* main.py:144-151
PersonalBranch(a, i) ==
    IF a.t # "none" /\ i.t # "none"
    THEN AgeAndIncome(a, i, 25, 25000, PersonalSuccess, PersonalIneligible)
    ELSE Ok(PersonalPrompt)

\* Mutant of EducationBranch: the qualification is not lower-cased.
EducationBranch_CaseSensitive(a, q) ==
    IF a.t # "none" /\ q.t # "none"
    THEN IF ~Contains(S_graduate, Str(q)) THEN Ok(EducationIneligible)
         ELSE IF int(a).err # "none" THEN Raise(int(a).err)
         ELSE IF int(a).n <= 30 THEN Ok(EducationSuccess)
         ELSE Ok(EducationIneligible)
    ELSE Ok(EducationPrompt)

\* main.py:153-161: `"graduate" in str(q).lower() and int(a) <= 30`
EducationBranch(a, q) ==
    IF a.t # "none" /\ q.t # "none"
    THEN IF ~Contains(S_graduate, Lower(Str(q))) THEN Ok(EducationIneligible)
         ELSE IF int(a).err # "none" THEN Raise(int(a).err)
         ELSE IF int(a).n <= 30 THEN Ok(EducationSuccess)
         ELSE Ok(EducationIneligible)
    ELSE Ok(EducationPrompt)

\* main.py:163-170
BusinessBranch(i) ==
    IF i.t # "none"
    THEN IF int(i).err # "none" THEN Raise(int(i).err)
         ELSE IF int(i).n >= 40000 THEN Ok(BusinessSuccess)
         ELSE Ok(BusinessIneligible)
    ELSE Ok(BusinessPrompt)

\* main.py:123-170: the if / elif chain on loan_type
Evaluate(lt, a, i, q) ==
    IF lt = StrV(S_home) THEN HomeBranch(a, i)
    ELSE IF lt = StrV(S_car) THEN CarBranch(a, i)
    ELSE IF lt = StrV(S_personal) THEN PersonalBranch(a, i)
    ELSE IF lt = StrV(S_education) THEN EducationBranch(a, q)
    ELSE IF lt = StrV(S_business) THEN BusinessBranch(i)
    ELSE Ok(Undetermined)

\* POST /webhook
loan_eligibility_webhook ==
    /\ pc = "received"
    /\ LET p == get_merged_parameters(request)
           lt == determine_loan_type(p)
           a == get_parameter(p, "age", "number")
           i == get_parameter(p, "income", "number")
           q == get_parameter(p, "qualification", NoFallback)
           out == Evaluate(lt, a, i, q)
       IN  /\ params' = p
           /\ loan_type' = lt
           /\ age' = a
           /\ income' = i
           /\ qualification' = q
           /\ raised' = out.raised
           /\ fulfillmentText' = out.text
    /\ pc' = "responded"
    /\ UNCHANGED request

\* ------------------------------------------------------------------ requests
QueryResult(parameters, contexts_null, output_contexts) ==
    [parameters |-> parameters, contexts_null |-> contexts_null,
     output_contexts |-> output_contexts]

Keys == {"loan-type", "Home_eligibility", "Car_eligibility", "education_eligibility",
         "edu_eligibility", "personal_eligibility", "Business_eligibility",
         "age", "income", "number", "qualification"}
Flags == {"Home_eligibility", "Car_eligibility", "education_eligibility",
          "edu_eligibility", "personal_eligibility", "Business_eligibility"}

\* Marks a key the request does not carry; never a value of a mapping.
Absent == Val("absent", 0, <<>>, FALSE, <<>>)

\* The mapping that carries the keys of `opts` that are not Absent.
Mapping(opts) == [k \in {x \in DOMAIN opts : opts[x] # Absent} |-> opts[k]]

Attributes(lt, a, i, num, q) ==
    Mapping([k \in {"loan-type", "age", "income", "number", "qualification"} |->
                CASE k = "loan-type" -> lt
                  [] k = "age" -> a
                  [] k = "income" -> i
                  [] k = "number" -> num
                  [] k = "qualification" -> q])

Products == {S_home, S_car, S_personal, S_education, S_business}

\* Integer ages and incomes around every threshold of the table.
GridAges == {17, 18, 20, 21, 24, 25, 30, 31}
GridIncomes == {19999, 20000, 24999, 25000, 29999, 30000, 39999, 40000}

GridRequests ==
    {QueryResult(Attributes(StrV(lt), IntV(a), IntV(i), Absent, q), FALSE, <<>>) :
        lt \in Products, a \in GridAges, i \in GridIncomes,
        q \in {Absent, StrV(S_UnderGraduate), StrV(S_HighSchool)}}

\* Every shape the platform can give a parameter.
AgeShapes ==
    {Absent, None, StrV(S_empty), IntV(25), IntV(31), StrV(S_abc), StrV(S_25),
     StrV(S_pad30), StrV(S_minus5), FloatV(209), BoolV(TRUE), ListV(<<IntE(21)>>),
     ListV(<<>>), ListV(<<NoneE>>), ListV(<<StrE(S_empty)>>), ListV(<<EmptyListE>>),
     AmountV(IntE(25), 1), DictV(0), DictV(1)}
IncomeShapes ==
    {Absent, None, StrV(S_empty), IntV(45000), IntV(100), StrV(S_abc), StrV(S_1_000),
     StrV(S_25dot0), FloatV(399999), AmountV(IntE(45000), 1), AmountV(NoneE, 0), ListV(<<>>),
     ListV(<<IntE(30000), IntE(1)>>)}
QualificationShapes ==
    {Absent, None, StrV(S_empty), StrV(S_UnderGraduate), StrV(S_POSTGRADUATE),
     StrV(S_HighSchool), ListV(<<StrE(S_graduate)>>), ListV(<<>>), IntV(5)}
NumberShapes ==
    {Absent, IntV(22), IntV(50000), StrV(S_abc), StrV(S_empty),
     AmountV(IntE(26), 0), ListV(<<NoneE>>)}

ShapeRequests ==
    {QueryResult(Attributes(StrV(lt), a, i, Absent, q), TRUE, <<>>) :
        lt \in Products, a \in AgeShapes, i \in IncomeShapes, q \in QualificationShapes}

FallbackRequests ==
    {QueryResult(Attributes(StrV(lt), a, i, num, q), FALSE, <<>>) :
        lt \in Products,
        a \in {Absent, None, StrV(S_empty), IntV(25)},
        i \in {Absent, None, StrV(S_empty), IntV(45000)},
        num \in NumberShapes,
        q \in {Absent, StrV(S_graduate)}}

\* Loan type: every value of `loan-type` against every set of flags.
LoanTypeShapes ==
    {Absent, None, StrV(S_empty), StrV(S_home), StrV(S_education), StrV(S_gold),
     StrV(S_Home), ListV(<<StrE(S_home)>>), IntV(0)}
FlagShapes == {Absent, StrV(S_empty), StrV(S_yes)}

LoanTypeRequests ==
    {QueryResult(
        Update(Attributes(lt, IntV(25), IntV(50000), Absent, StrV(S_graduate)), Mapping(f)),
        FALSE, <<>>) :
        lt \in LoanTypeShapes, f \in [Flags -> FlagShapes]}

\* Contexts carried over from earlier turns, and the current turn on top.
ContextNames == {N_followup, N_path, N_short, N_other}
ContextParameters ==
    {Attributes(StrV(S_home), Absent, Absent, Absent, Absent),
     Attributes(StrV(S_car), Absent, IntV(10000), Absent, Absent),
     Attributes(Absent, IntV(40), IntV(10000), Absent, Absent)}
Contexts ==
    {Context(n, FALSE, p) : n \in ContextNames, p \in ContextParameters \cup {EmptyDict}}
    \cup {Context(n, TRUE, EmptyDict) : n \in ContextNames}

RECURSIVE ContextLists(_)
ContextLists(len) ==
    IF len = 0 THEN {<<>>}
    ELSE ContextLists(len - 1)
         \cup {Append(l, c) : l \in {x \in ContextLists(len - 1) : Len(x) = len - 1},
                              c \in Contexts}

CurrentTurns ==
    {EmptyDict,
     Attributes(Absent, IntV(25), IntV(35000), Absent, Absent),
     Attributes(Absent, Absent, IntV(50000), Absent, Absent),
     Attributes(Absent, IntV(25), None, Absent, Absent),
     Attributes(StrV(S_empty), IntV(25), IntV(35000), Absent, Absent),
     Attributes(StrV(S_business), Absent, StrV(S_empty), Absent, Absent)}

ContextRequests ==
    {QueryResult(p, FALSE, l) : p \in CurrentTurns, l \in ContextLists(MaxContexts)}

Requests ==
    GridRequests \cup ShapeRequests \cup FallbackRequests \cup LoanTypeRequests
    \cup ContextRequests

\* ------------------------------------------------------------------ specification
Init ==
    /\ request \in Requests
    /\ pc = "received"
    /\ params = EmptyDict
    /\ loan_type = None
    /\ age = None
    /\ income = None
    /\ qualification = None
    /\ raised = "none"
    /\ fulfillmentText = NoText

Next == loan_eligibility_webhook

Spec == Init /\ [][Next]_vars

\* ------------------------------------------------------------------ claims
Responded == pc = "responded"
Returned(text) == raised = "none" /\ fulfillmentText = text

\* An integer, or a float with no fractional part (25.0).
IsInteger(v) == v.t = "int" \/ (v.t = "float" /\ v.n % 10 = 0)
IntegerOf(v) == IF v.t = "int" THEN v.n ELSE v.n \div 10

\* What the request supplies for an attribute: the key's value, or that of
\* `number` when the key is absent or null.
Supplied(k) == IF Get(params, k) # None THEN params[k] ELSE Get(params, "number")
NullOrEmpty(v) == v = None \/ v = StrV(S_empty)

\* C1: home, car, personal and business answer with the success message exactly
\* when the table's condition holds on the integer age and income (business: on
\* the income alone, whatever age and qualification are), else with the
\* product's ineligible message.
C1_DecisionTable ==
    Responded =>
        /\ (loan_type = StrV(S_home) /\ IsInteger(age) /\ IsInteger(income)) =>
              Returned(IF IntegerOf(age) >= 21 /\ IntegerOf(income) >= 30000
                       THEN HomeSuccess ELSE HomeIneligible)
        /\ (loan_type = StrV(S_car) /\ IsInteger(age) /\ IsInteger(income)) =>
              Returned(IF IntegerOf(age) >= 18 /\ IntegerOf(income) >= 20000
                       THEN CarSuccess ELSE CarIneligible)
        /\ (loan_type = StrV(S_personal) /\ IsInteger(age) /\ IsInteger(income)) =>
              Returned(IF IntegerOf(age) >= 25 /\ IntegerOf(income) >= 25000
                       THEN PersonalSuccess ELSE PersonalIneligible)
        /\ (loan_type = StrV(S_business) /\ IsInteger(income)) =>
              Returned(IF IntegerOf(income) >= 40000
                       THEN BusinessSuccess ELSE BusinessIneligible)

\* The home boundary: age 21 and income 30000 are eligible.
C1_Witness ==
    /\ Responded
    /\ loan_type = StrV(S_home) /\ age = IntV(21) /\ income = IntV(30000)
    /\ Returned(HomeSuccess)

\* C2: every key of the current turn holds the current turn's value in the
\* merged mapping, null and empty values included, whatever the contexts carry.
C2_CurrentTurnWins ==
    Responded =>
        \A k \in DOMAIN request.parameters :
            k \in DOMAIN params /\ params[k] = request.parameters[k]

\* A matching context carries an income, the current turn carries a null income.
C2_Witness ==
    /\ Responded
    /\ "income" \in DOMAIN request.parameters
    /\ request.parameters["income"] = None
    /\ \E n \in 1..Len(request.output_contexts) :
          /\ Contains(MARKER, request.output_contexts[n].name)
          /\ "income" \in DOMAIN request.output_contexts[n].parameters
          /\ request.output_contexts[n].parameters["income"] = IntV(10000)
    /\ params["income"] = None

\* C3: a required attribute that is null, or supplied as the empty string,
\* gets the product's missing-information prompt.
C3_MissingGetsPrompt ==
    Responded =>
        /\ (loan_type = StrV(S_home)
              /\ (age = None \/ income = None
                  \/ NullOrEmpty(Supplied("age")) \/ NullOrEmpty(Supplied("income")))) =>
              Returned(HomePrompt)
        /\ (loan_type = StrV(S_car)
              /\ (age = None \/ income = None
                  \/ NullOrEmpty(Supplied("age")) \/ NullOrEmpty(Supplied("income")))) =>
              Returned(CarPrompt)
        /\ (loan_type = StrV(S_personal)
              /\ (age = None \/ income = None
                  \/ NullOrEmpty(Supplied("age")) \/ NullOrEmpty(Supplied("income")))) =>
              Returned(PersonalPrompt)
        /\ (loan_type = StrV(S_education)
              /\ (age = None \/ qualification = None
                  \/ NullOrEmpty(Supplied("age"))
                  \/ NullOrEmpty(Get(params, "qualification")))) =>
              Returned(EducationPrompt)
        /\ (loan_type = StrV(S_business)
              /\ (income = None \/ NullOrEmpty(Supplied("income")))) =>
              Returned(BusinessPrompt)

\* An empty-string age beside an income that is not a number.
C3_Witness ==
    /\ Responded
    /\ loan_type = StrV(S_home)
    /\ Get(params, "age") = StrV(S_empty) /\ Get(params, "income") = StrV(S_abc)
    /\ age = None
    /\ Returned(HomePrompt)

Outcomes(product) ==
    CASE product = S_home -> {HomeSuccess, HomeIneligible, HomePrompt}
      [] product = S_car -> {CarSuccess, CarIneligible, CarPrompt}
      [] product = S_personal -> {PersonalSuccess, PersonalIneligible, PersonalPrompt}
      [] product = S_education -> {EducationSuccess, EducationIneligible, EducationPrompt}
      [] product = S_business -> {BusinessSuccess, BusinessIneligible, BusinessPrompt}

\* C4: a request for one of the five products always ends with one of the
\* product's three texts, never in an unhandled error.
C4_AlwaysOneOfThreeOutcomes ==
    Responded =>
        \A product \in Products :
            loan_type = StrV(product) =>
                raised = "none" /\ fulfillmentText \in Outcomes(product)

\* C5 as written: the derived loan type is one of the five products or null.
C5_ClosedSet ==
    Responded => (loan_type = None \/ \E product \in Products : loan_type = StrV(product))

\* C5 as amended: the derived loan type is one of the five products, null, or
\* the truthy `loan-type` value of the merged mapping, verbatim; a loan type
\* that is not one of the five is answered with the undetermined prompt.
C5_ClosedSetOrVerbatim ==
    Responded =>
        /\ \/ loan_type = None
           \/ \E product \in Products : loan_type = StrV(product)
           \/ Truthy(Get(params, "loan-type")) /\ loan_type = params["loan-type"]
        /\ (~\E product \in Products : loan_type = StrV(product)) => Returned(Undetermined)

\* `loan-type` names no product while a flag is set: the value is the loan type.
C5_Witness ==
    /\ Responded
    /\ Get(params, "loan-type") = StrV(S_gold)
    /\ Truthy(Get(params, "Home_eligibility"))
    /\ loan_type = StrV(S_gold)
    /\ Returned(Undetermined)

\* The checklist of the loan type derivation, in its order.
RuleKeys == <<"loan-type", "Home_eligibility", "Car_eligibility", "education_eligibility",
              "edu_eligibility", "personal_eligibility", "Business_eligibility">>
RuleResult(n) ==
    CASE n = 1 -> params["loan-type"]
      [] n = 2 -> StrV(S_home)
      [] n = 3 -> StrV(S_car)
      [] n \in {4, 5} -> StrV(S_education)
      [] n = 6 -> StrV(S_personal)
      [] n = 7 -> StrV(S_business)
Matching == {n \in 1..Len(RuleKeys) : Truthy(Get(params, RuleKeys[n]))}

\* C6: the loan type is the result of the first rule of the checklist that
\* matches, null when none does; with `loan-type` absent and no flag key
\* present the response is the undetermined prompt.
C6_FirstMatchWins ==
    Responded =>
        /\ Matching = {} => loan_type = None
        /\ Matching # {} =>
              loan_type = RuleResult(CHOOSE n \in Matching : \A m \in Matching : n <= m)
        /\ (DOMAIN params) \cap ({"loan-type"} \cup Flags) = {} => Returned(Undetermined)

\* Several flags are truthy: the education flag wins over personal and business.
C6_Witness ==
    /\ Responded
    /\ Matching = {5, 6, 7}
    /\ loan_type = StrV(S_education)

\* The contexts that contribute: the name holds the marker, the parameters are
\* not empty.
Contributing ==
    {n \in 1..Len(request.output_contexts) :
        /\ Contains(MARKER, request.output_contexts[n].name)
        /\ ~request.output_contexts[n].null
        /\ DOMAIN request.output_contexts[n].parameters # {}}
Carrying(k) == {n \in Contributing : k \in DOMAIN request.output_contexts[n].parameters}
LastCarrying(k) == CHOOSE n \in Carrying(k) : \A m \in Carrying(k) : m <= n

\* C7: a key the current turn lacks is in the merged mapping exactly when a
\* contributing context carries it, with the value of the last such context in
\* list order; a loan type that only a context carries is the one evaluated
\* against the age and income of the current turn.
C7_ContextOverlay ==
    Responded =>
        /\ \A k \in Keys \ DOMAIN request.parameters :
              /\ k \in DOMAIN params <=> Carrying(k) # {}
              /\ Carrying(k) # {} =>
                    params[k] = request.output_contexts[LastCarrying(k)].parameters[k]
        /\ ("loan-type" \notin DOMAIN request.parameters /\ Carrying("loan-type") # {}) =>
              loan_type = request.output_contexts[LastCarrying("loan-type")].parameters["loan-type"]
        /\ (/\ "loan-type" \notin DOMAIN request.parameters
            /\ Carrying("loan-type") # {}
            /\ request.output_contexts[LastCarrying("loan-type")].parameters["loan-type"]
                  = StrV(S_home)
            /\ Get(request.parameters, "age") = IntV(25)
            /\ Get(request.parameters, "income") = IntV(35000)) =>
              Returned(HomeSuccess)

\* Two contributing contexts carry different loan types; the current turn
\* carries age and income only.
C7_Witness ==
    /\ Responded
    /\ Len(request.output_contexts) = 2
    /\ Contributing = {1, 2}
    /\ Get(request.output_contexts[1].parameters, "loan-type") = StrV(S_car)
    /\ Get(request.output_contexts[2].parameters, "loan-type") = StrV(S_home)
    /\ request.parameters = Attributes(Absent, IntV(25), IntV(35000), Absent, Absent)
    /\ Returned(HomeSuccess)

\* "graduate" in any letter case, somewhere in the text.
UpperChar(c) ==
    IF \E n \in 1..Len(LowerOf) : LowerOf[n] = c
    THEN Upper[CHOOSE n \in 1..Len(LowerOf) : LowerOf[n] = c]
    ELSE c
HasGraduate(text) ==
    \E at \in 0..(Len(text) - Len(S_graduate)) :
        \A n \in 1..Len(S_graduate) :
            text[at + n] \in {S_graduate[n], UpperChar(S_graduate[n])}

\* C8: an education loan with age and qualification present and an integer age
\* is granted exactly when the qualification text contains "graduate", in any
\* letter case, and the age is at most 30; else it gets the ineligible message.
C8_Education ==
    (Responded /\ loan_type = StrV(S_education)
        /\ age # None /\ qualification # None /\ IsInteger(age)) =>
        Returned(IF HasGraduate(Str(qualification)) /\ IntegerOf(age) <= 30
                 THEN EducationSuccess ELSE EducationIneligible)

\* "Under Graduate" at age 30.
C8_Witness ==
    /\ Responded
    /\ loan_type = StrV(S_education)
    /\ qualification = StrV(S_UnderGraduate) /\ age = IntV(30)
    /\ Returned(EducationSuccess)

\* The value get_parameter resolves: the primary key's, or the fallback key's
\* when the primary key is absent or null.
Resolved(primary, fallback) ==
    IF primary \in DOMAIN params /\ params[primary] # None THEN params[primary]
    ELSE IF fallback # NoFallback /\ fallback \in DOMAIN params THEN params[fallback]
    ELSE None

Extracts(primary, fallback, result) ==
    LET v == Resolved(primary, fallback)
    IN  /\ v = None => result = None
        /\ (v.t = "dict" /\ v.amt) => result = Lift(v.items[1])
        /\ (v.t = "list" /\ v.items # <<>>) => result = Lift(v.items[1])
        /\ v = StrV(S_empty) => result = None
        /\ (/\ v # None
            /\ ~(v.t = "dict" /\ v.amt)
            /\ ~(v.t = "list" /\ v.items # <<>>)
            /\ v # StrV(S_empty)) => result = v

\* C9: get_parameter resolves the primary key, the fallback key only when the
\* primary is absent or null, and returns null for null, the amount of an
\* object with `amount`, the first element of a non-empty list, null for the
\* empty string and the value itself otherwise.
C9_GetParameter ==
    Responded =>
        /\ Extracts("age", "number", age)
        /\ Extracts("income", "number", income)
        /\ Extracts("qualification", NoFallback, qualification)

\* An empty-string age is not replaced by `number`; a structured income is
\* unwrapped to its amount.
C9_Witness ==
    /\ Responded
    /\ Get(params, "age") = StrV(S_empty) /\ Get(params, "number") = IntV(22)
    /\ age = None
    /\ income = IntV(22)

\* C10: a home, car or personal request with neither age nor income but with a
\* non-empty `number` n has age = income = n and is answered with the verdict
\* for age = income = n, never with the missing-information prompt.
C10_NumberFallback ==
    (/\ Responded
     /\ \E product \in {S_home, S_car, S_personal} : loan_type = StrV(product)
     /\ Get(params, "age") = None /\ Get(params, "income") = None
     /\ "number" \in DOMAIN params
     /\ Unwrap(params["number"]) # None) =>
        /\ age = Unwrap(params["number"])
        /\ income = Unwrap(params["number"])
        /\ raised = "none"
        /\ fulfillmentText \in {HomeSuccess, HomeIneligible, CarSuccess, CarIneligible,
                                PersonalSuccess, PersonalIneligible}

====
